---- MODULE Spec2Model ----
(***************************************************************************)
(* ua2idl.py: translation of an OPC UA binary type dictionary into IDL.    *)
(* The model covers the fixpoint loop of parseTypeDefinitions, the type    *)
(* classes with their typedef_idl renderings, and the emitter loop that    *)
(* writes the document after the static prelude.                           *)
(*                                                                         *)
(* Strings are TLA+ strings; Python's slicing, find, "in" and "+" on       *)
(* strings are computed with Len, SubSeq and \o.  An OrderedDict is a      *)
(* sequence of <<key, value>> entries in insertion order.  A Type object   *)
(* carries an identity id = <<pass, index>> of the loop iteration that     *)
(* constructed it (<<0, i>> for the i-th builtin), so that two objects of  *)
(* equal content are still told apart.  XML tags are written without the   *)
(* "{http://opcfoundation.org/BinarySchema/}" namespace prefix.            *)
(*                                                                         *)
(* passNo counts the passes of the while loop and deferred collects the    *)
(* indices of the records for which parseStructured has returned None;     *)
(* both record the history of the run and are read by no action's guard    *)
(* other than the bound on passNo.                                         *)
(***************************************************************************)
EXTENDS Integers, Sequences, FiniteSets, TLC

VARIABLES typeSnippets, types, finished, pc, idx, passNo, idl, deferred

vars == <<typeSnippets, types, finished, pc, idx, passNo, idl, deferred>>

\* ---------------------------------------------------------------- bounds

\* Longest record sequence read from the dictionary.
MaxRecords == 3

\* Passes of the while loop the model follows; the code has no such limit.
MaxPass == 3

\* ------------------------------------------------------- module constants

builtin_types ==
    << "Boolean", "SByte", "Byte", "Int16", "UInt16",
       "Int32", "UInt32", "Int64", "UInt64", "Float",
       "Double", "String", "DateTime", "Guid", "ByteString",
       "XmlElement", "NodeId", "ExpandedNodeId", "StatusCode",
       "QualifiedName", "LocalizedText", "ExtensionObject", "DataValue",
       "Variant", "DiagnosticInfo" >>

skip_types ==
    << "FilterOperand", "HistoryReadDetails", "MonitoringFilter",
       "MonitoringFilterResult", "NotificationData" >>

idl_keywords ==
    << "abstract", "exception", "inout", "provides", "truncatable",
       "any", "emits", "interface", "public", "typedef", "attribute",
       "enum", "local", "publishes", "typeid", "boolean", "eventtype",
       "long", "raises", "typeprefix", "case", "factory", "module", "readonly",
       "unsigned", "char", "FALSE", "multiple", "setraises", "union", "component",
       "finder", "native", "sequence", "uses", "const", "fixed", "Object", "short",
       "ValueBase", "consumes", "float", "octet", "string", "valuetype", "context",
       "getraises", "oneway", "struct", "void", "custom", "home", "out", "supports",
       "wchar", "default", "import", "primarykey", "switch", "wstring", "double", "in",
       "private", "TRUE" >>

\* ------------------------------------------------------- Python primitives

\* x in list
InList(x, list) == \E i \in 1..Len(list) : list[i] = x

\* sub in s, for strings
Contains(s, sub) ==
    \E i \in 1..(Len(s) - Len(sub) + 1) : SubSeq(s, i, i + Len(sub) - 1) = sub

\* re.search(suffix + "$", s) for a literal suffix
EndsWith(s, suffix) ==
    /\ Len(s) >= Len(suffix)
    /\ SubSeq(s, Len(s) - Len(suffix) + 1, Len(s)) = suffix

\* s.find(c) for a one-character c, as a 0-based index, -1 when absent
Find(s, c) ==
    IF \E i \in 1..Len(s) : SubSeq(s, i, i) = c
    THEN (CHOOSE i \in 1..Len(s) :
              /\ SubSeq(s, i, i) = c
              /\ \A j \in 1..(i - 1) : SubSeq(s, j, j) # c) - 1
    ELSE -1

\* key in d, for an OrderedDict d
HasKey(d, k) == \E i \in 1..Len(d) : d[i][1] = k

\* d[k]
Lookup(d, k) == d[CHOOSE i \in 1..Len(d) : d[i][1] = k][2]

\* d[k] = v: a key already present keeps its position and gets the new value
OdPut(d, k, v) ==
    IF HasKey(d, k)
    THEN [i \in 1..Len(d) |-> IF d[i][1] = k THEN <<k, v>> ELSE d[i]]
    ELSE Append(d, <<k, v>>)

\* s.split("\n"): the pieces between the newlines of s, in order
SplitLines(s) ==
    LET nl == {i \in 1..Len(s) : SubSeq(s, i, i) = "\n"}
        at(k) == CHOOSE i \in nl : Cardinality({j \in nl : j < i}) = k - 1
    IN  [k \in 1..(Cardinality(nl) + 1) |->
            SubSeq(s, IF k = 1 THEN 1 ELSE at(k - 1) + 1,
                      IF k = Cardinality(nl) + 1 THEN Len(s) ELSE at(k) - 1)]

\* ------------------------------------------------------------- sanitizer

protected_identifier(s) ==
    IF InList(s, idl_keywords) THEN "_" \o s ELSE s

\* ------------------------------------------------------------ type model

BuiltinType(name, id) ==
    [cls |-> "BuiltinType", id |-> id, name |-> name, description |-> ""]

EnumerationType(name, description, elements, id) ==
    [cls |-> "EnumerationType", id |-> id, name |-> protected_identifier(name),
     description |-> description, elements |-> elements]

\* OpaqueType inherits Type.__init__, which stores the name as given.
OpaqueType(name, description, id) ==
    [cls |-> "OpaqueType", id |-> id, name |-> name, description |-> description]

\* memberType is a reference to a Type object: its identity and the name read
\* through it (a Type's name is never assigned after construction).
\* protected_identifier(memberType) compares the object with the keyword
\* strings, finds no match and returns the object.
StructMember(name, memberType, isArray) ==
    [name |-> protected_identifier(name),
     memberType |-> [id |-> memberType.id, name |-> memberType.name],
     isArray |-> isArray]

StructType(name, description, members, id) ==
    [cls |-> "StructType", id |-> id, name |-> protected_identifier(name),
     description |-> description, members |-> members]

\* tdef[:-3]
DropLast3(s) == IF Len(s) >= 3 THEN SubSeq(s, 1, Len(s) - 3) ELSE ""

RECURSIVE EnumLabels(_, _)
EnumLabels(elements, i) ==
    IF i > Len(elements) THEN ""
    ELSE "\t\t" \o protected_identifier(elements[i][1]) \o ", \n"
             \o EnumLabels(elements, i + 1)

EnumerationType_typedef_idl(self) ==
    DropLast3("\tenum " \o self.name \o " {\n" \o EnumLabels(self.elements, 1))
        \o "\n\t};"

OpaqueType_typedef_idl(self) ==
    "\ttypedef ByteString " \o protected_identifier(self.name) \o ";"

StructFieldLine(member) ==
    IF member.isArray
    THEN "\t\tListOf" \o member.memberType.name \o " " \o member.name \o ";\n"
    ELSE "\t\t" \o member.memberType.name \o " " \o member.name \o ";\n"

RECURSIVE StructFields(_, _)
StructFields(members, i) ==
    IF i > Len(members) THEN ""
    ELSE StructFieldLine(members[i][2]) \o StructFields(members, i + 1)

StructType_typedef_idl(self) ==
    "\t struct " \o self.name \o " {\n" \o StructFields(self.members, 1) \o "\t};"

typedef_idl(t) ==
    CASE t.cls = "EnumerationType" -> EnumerationType_typedef_idl(t)
      [] t.cls = "OpaqueType"      -> OpaqueType_typedef_idl(t)
      [] t.cls = "StructType"      -> StructType_typedef_idl(t)

\* The wrapper the emitter loop prints after each declaration; name is the
\* registry key.
ListOfWrapper(name) ==
    "\tunion ListOf" \o name \o " switch(boolean) { case true: sequence<"
        \o name \o "> Content; };\n"

\* --------------------------------------------------------------- resolver

\* skipType without its test for the "Test" marker.
skipType_noTestMarker(name) ==
    \/ InList(name, builtin_types)
    \/ InList(name, skip_types)
    \/ EndsWith(name, "NodeId")

skipType(name) ==
    \/ InList(name, builtin_types)
    \/ InList(name, skip_types)
    \/ Contains(name, "Test")
    \/ EndsWith(name, "NodeId")

stripTypename(tn) == SubSeq(tn, Find(tn, ":") + 2, Len(tn))

\* The description a parse function ends with: the text of the last
\* Documentation child, "" when there is none.
RECURSIVE DescriptionOf(_, _, _)
DescriptionOf(children, i, description) ==
    IF i > Len(children) THEN description
    ELSE DescriptionOf(children, i + 1,
             IF children[i].tag = "Documentation" THEN children[i].text
             ELSE description)

RECURSIVE EnumElements(_, _, _, _)
EnumElements(name, children, i, elements) ==
    IF i > Len(children) THEN elements
    ELSE EnumElements(name, children, i + 1,
             IF children[i].tag = "EnumeratedValue"
             THEN OdPut(elements, name \o "_" \o children[i].Name, children[i].Value)
             ELSE elements)

parseEnumeration(typeXml, id) ==
    EnumerationType(typeXml.Name, DescriptionOf(typeXml.children, 1, ""),
                    EnumElements(typeXml.Name, typeXml.children, 1, <<>>), id)

parseOpaque(typeXml, id) ==
    OpaqueType(typeXml.Name, DescriptionOf(typeXml.children, 1, ""), id)

\* The value parseStructured returns when a member type is missing.
None == [cls |-> "None"]

RECURSIVE LengthFields(_, _)
LengthFields(children, i) ==
    IF i > Len(children) THEN <<>>
    ELSE (IF children[i].LengthField # "" THEN <<children[i].LengthField>> ELSE <<>>)
             \o LengthFields(children, i + 1)

\* The loop over the children that fills members; missing as soon as a member
\* type is not a key of the registry (the early "return None").
RECURSIVE StructMembers(_, _, _, _, _)
StructMembers(children, i, lengthfields, reg, members) ==
    IF i > Len(children) THEN [missing |-> FALSE, members |-> members]
    ELSE LET child == children[i] IN
         IF child.tag # "Field"
         THEN StructMembers(children, i + 1, lengthfields, reg, members)
         ELSE IF InList(child.Name, lengthfields)
         THEN StructMembers(children, i + 1, lengthfields, reg, members)
         ELSE IF ~HasKey(reg, stripTypename(child.TypeName))
         THEN [missing |-> TRUE, members |-> <<>>]
         ELSE StructMembers(children, i + 1, lengthfields, reg,
                  OdPut(members, child.Name,
                        StructMember(child.Name,
                                     Lookup(reg, stripTypename(child.TypeName)),
                                     child.LengthField # "")))

parseStructured(typeXml, reg, id) ==
    LET r == StructMembers(typeXml.children, 1,
                           LengthFields(typeXml.children, 1), reg, <<>>)
    IN  IF r.missing THEN None
        ELSE StructType(typeXml.Name, DescriptionOf(typeXml.children, 1, ""),
                        r.members, id)

\* ---------------------------------------------------------------- prelude

\* The lines of the literal printed before the generated declarations.
PreludeLines ==
    << " module UA {",
       "",
       "    // name clashes with IDL keywords are prevented by a \"_\" prefix",
       "",
       "    typedef boolean _Boolean;",
       "    union ListOfBoolean switch(boolean) { case true: sequence<_Boolean> Content; };",
       "",
       "    typedef char SByte ;",
       "    union ListOfSByte switch(boolean) { case true: sequence<SByte> Content; };",
       "",
       "    typedef octet Byte;",
       "    union ListOfByte switch(boolean) { case true: sequence<Byte> Content; };",
       "",
       "    typedef short Int16;",
       "    union ListOfInt16 switch(boolean) { case true: sequence<Int16> Content; };",
       "",
       "    typedef unsigned short UInt16;",
       "    union ListOfUInt16 switch(boolean) { case true: sequence<UInt16> Content; };",
       "",
       "    typedef long Int32;",
       "    union ListOfInt32 switch(boolean) { case true: sequence<Int32> Content; };",
       "",
       "    typedef long StatusCode;",
       "    union ListOfStatusCode switch(boolean) { case true: sequence<StatusCode> Content; };",
       "",
       "    typedef unsigned long UInt32;",
       "    union ListOfUInt32 switch(boolean) { case true: sequence<UInt32> Content; };",
       "",
       "    typedef long long Int64;",
       "    union ListOfInt64 switch(boolean) { case true: sequence<Int64> Content; };",
       "",
       "    typedef float _Float;",
       "    union ListOfFloat switch(boolean) { case true: sequence<_Float> Content; };",
       "",
       "    typedef float _Double;",
       "    union ListOfDouble switch(boolean) { case true: sequence<_Double> Content; };",
       "",
       "    typedef long long DateTime;",
       "    union ListOfDateTime switch(boolean) { case true: sequence<DateTime> Content; };",
       "",
       "    typedef unsigned long long UInt64;",
       "    union ListOfUInt64 switch(boolean) { case true: sequence<UInt64> Content; };",
       "",
       "    typedef ListOfByte _String;",
       "    union ListOfString switch(boolean) { case true: sequence<_String> Content; };",
       "",
       "    typedef ListOfByte ByteString;",
       "    union ListOfByteString switch(boolean) { case true: sequence<ByteString> Content; };",
       "",
       "    typedef ListOfByte XmlElement;",
       "    union ListOfXmlElement switch(boolean) { case true: sequence<XmlElement> Content; };",
       "",
       "    struct Guid {",
       "        UInt32 Data1;",
       "        UInt32 Data2;",
       "        UInt16 Data3;",
       "        Byte Data4[8];",
       "    };",
       "    union ListOfGuid switch(boolean) { case true: sequence<Guid> Content; };",
       "    ",
       "    enum NodeIdContent {",
       "        NodeIdContentNumeric,",
       "        NodeIdContentString,",
       "        NodeIdContentGuid,",
       "        NodeIdContentByteString",
       "    };",
       "",
       "    union NodeIdIdentifier switch(NodeIdContent) {",
       "        case NodeIdContentNumeric: UInt32 Numeric;",
       "        case NodeIdContentString: _String _String;",
       "        case NodeIdContentGuid: Guid Guid;",
       "        case NodeIdContentByteString: ByteString ByteString;",
       "    };",
       "",
       "    struct NodeId {",
       "        unsigned short NamespaceIndex;",
       "        NodeIdIdentifier Identifier;",
       "    };",
       "    union ListOfNodeId switch(boolean) { case true: sequence<NodeId> Content; };",
       "",
       "    struct ExpandedNodeId {",
       "        NodeId NodeId;",
       "        _String NamespaceUri;",
       "        UInt32 ServerIndex;",
       "    };",
       "    union ListOfExpandedNodeId switch(boolean) { case true: sequence<ExpandedNodeId> Content; };",
       "",
       "    struct QualifiedName {",
       "        UInt16 NamespaceIndex;",
       "        _String Name;",
       "    };",
       "    union ListOfQualifiedName switch(boolean) { case true: sequence<QualifiedName> Content; };",
       "",
       "    struct LocalizedText {",
       "        _String Locale;",
       "        _String Text;",
       "    };",
       "    union ListOfLocalizedText switch(boolean) { case true: sequence<LocalizedText> Content; };",
       "",
       "    enum ExtensionObjectBodyType {",
       "        ExtensionObjectBodyTypeNoBody,",
       "        ExtensionObjectBodyTypeByteString,",
       "        ExtensionObjectBodyTypeXml",
       "    };",
       "",
       "    union ExtensionObjectBody switch(ExtensionObjectBodyType) {",
       "        case ExtensionObjectBodyTypeByteString: ByteString ByteString;",
       "        case ExtensionObjectBodyTypeXml: XmlElement Xml;",
       "    };",
       "    ",
       "    struct ExtensionObject {",
       "        NodeId _TypeId;",
       "        ExtensionObjectBody Body;",
       "    };",
       "    union ListOfExtensionObject switch(boolean) { case true: sequence<ExtensionObject> Content; };",
       "",
       "    struct Variant; // forward declaration",
       "    union ListOfVariant switch(boolean) { case true: sequence<Variant> Content; };",
       "",
       "    struct DataValue {",
       "        sequence<Variant, 1> Value;",
       "        sequence<StatusCode, 1> Status;",
       "        sequence<DateTime, 1> SourceTimestamp;",
       "        sequence<UInt16, 1> SourcePicoseconds;",
       "        sequence<DateTime, 1> ServerTimestamp;",
       "        sequence<UInt16, 1> ServerPicoseconds;",
       "    };",
       "    union ListOfDataValue switch(boolean) { case true: sequence<DataValue> Content; };",
       "",
       "    struct DiagnosticInfo {",
       "        sequence<Int32, 1> SymbolicId;",
       "        sequence<Int32, 1> NamespaceUri;",
       "        sequence<Int32, 1> LocalizedText;",
       "        sequence<Int32, 1> Locale;",
       "        sequence<_String, 1> AdditionalInfo;",
       "        sequence<StatusCode, 1> InnerStatusCode;",
       "        sequence<DiagnosticInfo, 1> InnerDiagnosticInfo;",
       "    };",
       "    union ListOfDiagnosticInfo switch(boolean) { case true: sequence<DiagnosticInfo> Content; };",
       "",
       "    enum VariantContentType {",
       "        VariantContentTypeBoolean,",
       "        VariantContentTypeSByte,",
       "        VariantContentTypeByte,",
       "        VariantContentTypeInt16,",
       "        VariantContentTypeUInt16,",
       "        VariantContentTypeInt32,",
       "        VariantContentTypeUInt32,",
       "        VariantContentTypeFloat,",
       "        VariantContentTypeDouble,",
       "        VariantContentTypeString,",
       "        VariantContentTypeDateTime,",
       "        VariantContentTypeGuid,",
       "        VariantContentTypeByteString,",
       "        VariantContentTypeXmlElement,",
       "        VariantContentTypeNodeId,",
       "        VariantContentTypeExpandedNodeId,",
       "        VariantContentTypeStatusCode,",
       "        VariantContentTypeQualifiedName,",
       "        VariantContentTypeLocalizedText,",
       "        VariantContentTypeExtensionObject,",
       "        VariantContentTypeDataValue,",
       "        VariantContentTypeVariant,",
       "        VariantContentTypeDiagnosticInfo",
       "    };",
       "",
       "    union VariantContent switch(VariantContentType) {",
       "    case VariantContentTypeBoolean: ListOfBoolean _Boolean;",
       "    case VariantContentTypeSByte: ListOfSByte SByte;",
       "    case VariantContentTypeByte: ListOfByte Byte;",
       "    case VariantContentTypeInt16: ListOfInt16 Int16;",
       "    case VariantContentTypeUInt16: ListOfUInt16 UInt16;",
       "    case VariantContentTypeInt32: ListOfInt32 Int32;",
       "    case VariantContentTypeUInt32: ListOfUInt32 UInt32;",
       "    case VariantContentTypeFloat: ListOfFloat _Float;",
       "    case VariantContentTypeDouble: ListOfDouble _Double;",
       "    case VariantContentTypeString: ListOfString _String;",
       "    case VariantContentTypeDateTime: ListOfDateTime Datetime;",
       "    case VariantContentTypeGuid: ListOfGuid Guid;",
       "    case VariantContentTypeByteString: ListOfByteString ByteString;",
       "    case VariantContentTypeXmlElement: ListOfXmlElement Xmlelement;",
       "    case VariantContentTypeNodeId: ListOfNodeId NodeId;",
       "    case VariantContentTypeExpandedNodeId: ListOfExpandedNodeId ExpandedNodeId;",
       "    case VariantContentTypeStatusCode: ListOfStatusCode StatusCode;",
       "    case VariantContentTypeQualifiedName: ListOfQualifiedName QualifiedName;",
       "    case VariantContentTypeLocalizedText: ListOfLocalizedText LocalizedText;",
       "    case VariantContentTypeExtensionObject: ListOfExtensionObject ExtensionObject;",
       "    case VariantContentTypeDataValue: ListOfDataValue DataValue;",
       "    case VariantContentTypeVariant: ListOfVariant Variant;",
       "    case VariantContentTypeDiagnosticInfo: ListOfDiagnosticInfo DiagnosticInfo;",
       "    };",
       "",
       "    struct Variant {",
       "        _Boolean scalar; // force the VariantContent to contain just one element",
       "        VariantContent Content;",
       "        ListOfUInt32 ArrayDimensions;",
       "    };",
       "" >>

\* ------------------------------------------------------- input dictionary

Documentation(text) ==
    [tag |-> "Documentation", Name |-> "", TypeName |-> "", LengthField |-> "",
     Value |-> "", text |-> text]

EnumeratedValue(name, value) ==
    [tag |-> "EnumeratedValue", Name |-> name, TypeName |-> "", LengthField |-> "",
     Value |-> value, text |-> ""]

\* lengthField is "" when the Field has no LengthField attribute.
Field(name, typeName, lengthField) ==
    [tag |-> "Field", Name |-> name, TypeName |-> typeName,
     LengthField |-> lengthField, Value |-> "", text |-> ""]

Snippet(tag, name, children) == [tag |-> tag, Name |-> name, children |-> children]

\* Children of an EnumeratedType: none, or values of which one name repeats.
EnumBodies ==
    { <<>>,
      <<Documentation("colours"), EnumeratedValue("Red", "0"),
        EnumeratedValue("Green", "1"), EnumeratedValue("Red", "2")>> }

\* Children of a StructuredType whose members are builtins: a member named
\* by a keyword, two fields that are each other's length field, no field at
\* all.
LeafBodies ==
    { <<Field("string", "opc:Boolean", "")>>,
      <<Field("a", "opc:Int32", "b"), Field("b", "opc:Int32", "a")>>,
      <<>> }

\* Children of a StructuredType that refers to other records of the
\* dictionary: an array of A with its length field, a type named by a keyword.
RefBodies ==
    { <<Field("NoOfItems", "opc:Int32", ""), Field("Items", "tns:A", "NoOfItems")>>,
      <<Field("Item", "tns:struct", "")>> }

RecordPool ==
    {Snippet("EnumeratedType", "E", b) : b \in EnumBodies}
    \cup {Snippet("StructuredType", "A", b) : b \in LeafBodies}
    \cup {Snippet("StructuredType", "B", b) : b \in RefBodies}
    \cup {Snippet("StructuredType", "_struct", <<Field("Item", "A", "")>>),
          Snippet("StructuredType", "struct", <<Field("Item", "tns:_struct", "")>>),
          Snippet("EnumeratedType", "struct", <<EnumeratedValue("On", "1")>>),
          Snippet("OpaqueType", "struct", <<Documentation("bytes")>>),
          Snippet("UnknownType", "U", <<>>),
          Snippet("StructuredType", "Boolean", <<Field("Flag", "opc:Boolean", "")>>),
          Snippet("StructuredType", "FilterOperand", <<>>),
          Snippet("EnumeratedType", "MyTestEnum", <<EnumeratedValue("Red", "0")>>),
          Snippet("OpaqueType", "FooNodeId", <<>>)}

\* The dictionaries read: up to MaxRecords records, no two of the same name.
Dictionaries ==
    {s \in UNION {[1..n -> RecordPool] : n \in 0..MaxRecords} :
        \A i, j \in DOMAIN s : s[i].Name = s[j].Name => i = j}

\* --------------------------------------------------------------- the run

RECURSIVE SeedBuiltins(_)
SeedBuiltins(i) ==
    IF i > Len(builtin_types) THEN <<>>
    ELSE <<<<builtin_types[i], BuiltinType(builtin_types[i], <<0, i>>)>>>>
             \o SeedBuiltins(i + 1)

Init ==
    /\ typeSnippets \in Dictionaries
    /\ types = SeedBuiltins(1)
    /\ finished = FALSE
    /\ pc = "while"
    /\ idx = 0
    /\ passNo = 0
    /\ idl = <<>>
    /\ deferred = {}

typeXml == typeSnippets[idx]

InFor == pc = "for" /\ idx <= Len(typeSnippets)

\* while(not finished): finished = True, and the for loop starts
WhileEnter ==
    /\ pc = "while" /\ ~finished
    /\ passNo < MaxPass
    /\ finished' = TRUE
    /\ passNo' = passNo + 1
    /\ idx' = 1
    /\ pc' = "for"
    /\ UNCHANGED <<typeSnippets, types, idl, deferred>>

\* while(not finished) is left; return types
WhileExit ==
    /\ pc = "while" /\ finished
    /\ pc' = "prelude"
    /\ UNCHANGED <<typeSnippets, types, finished, idx, passNo, idl, deferred>>

\* One iteration of "for typeXml in typeSnippets": the record is passed over
\* (continue), parsed and put into the registry, deferred (parseStructured
\* returned None), or, with a tag none of the three branches matches, ignored.
ForBody ==
    /\ InFor
    /\ LET name == typeXml.Name
           id   == <<passNo, idx>>
       IN  IF HasKey(types, name) \/ skipType(name)
           THEN UNCHANGED <<types, finished, deferred>>
           ELSE IF typeXml.tag = "EnumeratedType"
           THEN LET t == parseEnumeration(typeXml, id)
                IN  /\ types' = OdPut(types, t.name, t)
                    /\ UNCHANGED <<finished, deferred>>
           ELSE IF typeXml.tag = "OpaqueType"
           THEN LET t == parseOpaque(typeXml, id)
                IN  /\ types' = OdPut(types, t.name, t)
                    /\ UNCHANGED <<finished, deferred>>
           ELSE IF typeXml.tag = "StructuredType"
           THEN LET t == parseStructured(typeXml, types, id)
                IN  IF t = None
                    THEN /\ finished' = FALSE
                         /\ deferred' = deferred \cup {idx}
                         /\ types' = types
                    ELSE /\ types' = OdPut(types, t.name, t)
                         /\ UNCHANGED <<finished, deferred>>
           ELSE UNCHANGED <<types, finished, deferred>>
    /\ idx' = idx + 1
    /\ UNCHANGED <<typeSnippets, pc, passNo, idl>>

\* the for loop has visited every record
ForEnd ==
    /\ pc = "for" /\ idx > Len(typeSnippets)
    /\ pc' = "while"
    /\ UNCHANGED <<typeSnippets, types, finished, idx, passNo, idl, deferred>>

\* printidl(s): print(s, end='\n') writes the lines of s
printidl(doc, s) == doc \o SplitLines(s)

\* for name, t in types.iteritems(): builtins are passed over, every other
\* entry is printed as its declaration followed by its ListOf wrapper
RECURSIVE EmitFrom(_, _, _)
EmitFrom(reg, i, doc) ==
    IF i > Len(reg) THEN doc
    ELSE IF InList(reg[i][1], builtin_types) THEN EmitFrom(reg, i + 1, doc)
    ELSE EmitFrom(reg, i + 1,
             printidl(printidl(doc, typedef_idl(reg[i][2])), ListOfWrapper(reg[i][1])))

\* printidl(''' module UA { ... ''')
EmitPrelude ==
    /\ pc = "prelude"
    /\ idl' = idl \o PreludeLines
    /\ pc' = "emit"
    /\ UNCHANGED <<typeSnippets, types, finished, idx, passNo, deferred>>

\* the emitter loop over the registry
EmitTypes ==
    /\ pc = "emit"
    /\ idl' = EmitFrom(types, 1, idl)
    /\ pc' = "close"
    /\ UNCHANGED <<typeSnippets, types, finished, idx, passNo, deferred>>

\* printidl("};")
EmitClose ==
    /\ pc = "close"
    /\ idl' = printidl(idl, "};")
    /\ pc' = "done"
    /\ UNCHANGED <<typeSnippets, types, finished, idx, passNo, deferred>>

Next ==
    \/ WhileEnter
    \/ WhileExit
    \/ ForBody
    \/ ForEnd
    \/ EmitPrelude
    \/ EmitTypes
    \/ EmitClose

Spec == Init /\ [][Next]_vars

\* ============================================================= properties

\* --------------------------------------------- reading the document back

IdChars ==
    { "a", "b", "c", "d", "e", "f", "g", "h", "i", "j", "k", "l", "m",
      "n", "o", "p", "q", "r", "s", "t", "u", "v", "w", "x", "y", "z",
      "A", "B", "C", "D", "E", "F", "G", "H", "I", "J", "K", "L", "M",
      "N", "O", "P", "Q", "R", "S", "T", "U", "V", "W", "X", "Y", "Z",
      "0", "1", "2", "3", "4", "5", "6", "7", "8", "9", "_" }

\* A line without its "//" comment.
StripComment(s) ==
    IF Contains(s, "//")
    THEN SubSeq(s, 1, (CHOOSE i \in 1..(Len(s) - 1) :
                           /\ SubSeq(s, i, i + 1) = "//"
                           /\ \A j \in 1..(i - 1) : SubSeq(s, j, j + 1) # "//") - 1)
    ELSE s

\* The tokens of a text: identifiers (maximal runs of letters, digits and
\* "_") and single punctuation characters; blanks, tabs and newlines separate.
RECURSIVE TokensFrom(_, _)
TokensFrom(s, i) ==
    IF i > Len(s) THEN <<>>
    ELSE IF SubSeq(s, i, i) \in {" ", "\t", "\n"} THEN TokensFrom(s, i + 1)
    ELSE IF SubSeq(s, i, i) \notin IdChars
    THEN <<SubSeq(s, i, i)>> \o TokensFrom(s, i + 1)
    ELSE LET j == CHOOSE j \in i..Len(s) :
                      /\ \A k \in i..j : SubSeq(s, k, k) \in IdChars
                      /\ j = Len(s) \/ SubSeq(s, j + 1, j + 1) \notin IdChars
         IN  <<SubSeq(s, i, j)>> \o TokensFrom(s, j + 1)

Tokens(s) == TokensFrom(s, 1)

\* The type identifiers a line of the document declares: the alias of a
\* typedef, the name after union, struct or enum.
DeclaredBy(line) ==
    LET t == Tokens(StripComment(line))
    IN  IF Len(t) >= 2 /\ t[1] \in {"union", "struct", "enum"} THEN {t[2]}
        ELSE IF Len(t) >= 3 /\ t[1] = "typedef" THEN {t[Len(t) - 1]}
        ELSE {}

DeclaredIn(lines) == UNION {DeclaredBy(lines[k]) : k \in 1..Len(lines)}

PreludeDeclared == DeclaredIn(PreludeLines)

\* The lines printed after the prelude.
Generated == SubSeq(idl, Len(PreludeLines) + 1, Len(idl))

LoopLeft == pc \in {"prelude", "emit", "close", "done"}

\* The records the specification excludes from generation, by name.
Excluded(name) ==
    \/ \E i \in 1..Len(builtin_types) : builtin_types[i] = name
    \/ name \in {"FilterOperand", "HistoryReadDetails", "MonitoringFilter",
                 "MonitoringFilterResult", "NotificationData"}
    \/ \E i \in 1..(Len(name) - 3) : SubSeq(name, i, i + 3) = "Test"
    \/ (Len(name) >= 6 /\ SubSeq(name, Len(name) - 5, Len(name)) = "NodeId")

\* The entries the loop has put after the seeded builtins, and the record
\* each was constructed from.
ResolvedEntries == (Len(builtin_types) + 1)..Len(types)

SourceOf(i) == typeSnippets[types[i][2].id[2]]

\* C3: no record whose name is a builtin name, is in skip_types, contains
\* "Test" or ends in "NodeId" is ever the source of a registry entry, and the
\* document never holds a declaration or a ListOf wrapper of its name.
C3_ExcludedNeverGenerated ==
    /\ \A i \in ResolvedEntries : ~Excluded(SourceOf(i).Name)
    /\ pc \in {"close", "done"} =>
          LET declared == DeclaredIn(Generated)
          IN  \A r \in 1..Len(typeSnippets) :
                  Excluded(typeSnippets[r].Name) =>
                      declared \cap
                          { typeSnippets[r].Name, "_" \o typeSnippets[r].Name,
                            "ListOf" \o typeSnippets[r].Name,
                            "ListOf_" \o typeSnippets[r].Name } = {}

\* A run that has written its document from a dictionary holding an excluded
\* record, passed over in the loop, and a record that was declared.
C3_Witness ==
    /\ pc = "done"
    /\ \E r \in 1..Len(typeSnippets) : Excluded(typeSnippets[r].Name)
    /\ ResolvedEntries # {}
    /\ DeclaredIn(Generated) # {}

\* ----------------------------------------------------------- the registry

StructEntries == {i \in 1..Len(types) : types[i][2].cls = "StructType"}

\* C1: for every StructType of the registry, the type each member refers to
\* is the entry of an earlier position of the registry.
C1_TopologicalOrder ==
    \A i \in StructEntries :
        \A m \in 1..Len(types[i][2].members) :
            \E j \in 1..(i - 1) :
                types[j][2].name = types[i][2].members[m][2].memberType.name

\* C4: a step leaves the registry as it is or appends one entry under a new
\* key; no entry is removed and none is replaced.
C4_AppendOnly ==
    [][ \/ types' = types
        \/ /\ Len(types') = Len(types) + 1
           /\ SubSeq(types', 1, Len(types)) = types
           /\ ~HasKey(types, types'[Len(types')][1]) ]_vars

\* The types the loop has added to the builtins.
NewTypes == Len(types) - Len(builtin_types)

\* C2: a pass that adds no type while a record is still unresolved ends the
\* loop, so a pass is entered only after a pass that added a type: the
\* passes entered never exceed the types added by more than one.
C2_StallEndsLoop == passNo <= NewTypes + 1

\* ------------------------------------------------------------ the records

Recognised(r) ==
    typeSnippets[r].tag \in {"EnumeratedType", "OpaqueType", "StructuredType"}

Structured(r) == typeSnippets[r].tag = "StructuredType"

\* The fields of a record that are not the length field of another child.
MemberFields(rec) ==
    SelectSeq(rec.children,
              LAMBDA c : c.tag = "Field" /\ ~InList(c.Name, LengthFields(rec.children, 1)))

\* The type names the members of a record refer to, prefix stripped.
Refs(rec) ==
    {stripTypename(MemberFields(rec)[k].TypeName) : k \in 1..Len(MemberFields(rec))}

MissingRef(rec) == \E n \in Refs(rec) : ~HasKey(types, n)

\* The registry holds an entry constructed from record r.
Inserted(reg, r) ==
    \E i \in (Len(builtin_types) + 1)..Len(reg) : reg[i][2].id[2] = r

RegistryKeys == [i \in 1..Len(types) |-> types[i][1]]

\* The dictionary of the forward-dependency scenario: B, an array of A, and
\* then A, whose only member is a builtin.
ForwardDependency ==
    << Snippet("StructuredType", "B",
               <<Field("NoOfItems", "opc:Int32", ""), Field("Items", "tns:A", "NoOfItems")>>),
       Snippet("StructuredType", "A", <<Field("string", "opc:Boolean", "")>>) >>

\* C7: a visit of a Structured record of which a member type is missing puts
\* nothing into the registry and schedules another pass; a deferred record is
\* put into the registry at the first later visit that finds every member
\* type; and on [B referring to A, A] the loop defers B and inserts A in pass
\* 1, inserts B in pass 2 and ends with the registry [builtins..., A, B].
C7_DeferralOrdering ==
    /\ [][ (InFor /\ Structured(idx) /\ ~Excluded(typeXml.Name)) =>
              /\ MissingRef(typeXml) => (types' = types /\ finished' = FALSE)
              /\ (idx \in deferred /\ ~Inserted(types, idx) /\ ~MissingRef(typeXml))
                     => Inserted(types', idx) ]_vars
    /\ [](typeSnippets = ForwardDependency /\ LoopLeft =>
              /\ passNo = 2
              /\ deferred = {1}
              /\ RegistryKeys = builtin_types \o <<"A", "B">>
              /\ Lookup(types, "A").id = <<1, 2>>
              /\ Lookup(types, "B").id = <<2, 1>>)

NumStructured == Cardinality({r \in 1..Len(typeSnippets) : Structured(r)})

\* Record r has a member of the type record q declares.
DependsOn(r, q) ==
    /\ Structured(r) /\ ~Excluded(typeSnippets[r].Name)
    /\ typeSnippets[q].Name \in Refs(typeSnippets[r])

RECURSIVE ReachableFrom(_, _)
ReachableFrom(S, k) ==
    IF k = 0 THEN S
    ELSE ReachableFrom(
             S \cup {q \in 1..Len(typeSnippets) : \E r \in S : DependsOn(r, q)}, k - 1)

\* Every member of every Structured record that is not excluded refers to a
\* builtin or to a record of the dictionary that is not excluded and of a
\* recognised kind, and no record depends on itself.
WellFormed ==
    /\ \A r \in 1..Len(typeSnippets) :
          (Structured(r) /\ ~Excluded(typeSnippets[r].Name)) =>
              \A n \in Refs(typeSnippets[r]) :
                  \/ InList(n, builtin_types)
                  \/ \E q \in 1..Len(typeSnippets) :
                         /\ typeSnippets[q].Name = n
                         /\ ~Excluded(n)
                         /\ Recognised(q)
    /\ \A r \in 1..Len(typeSnippets) :
          r \notin ReachableFrom({q \in 1..Len(typeSnippets) : DependsOn(r, q)},
                                 Len(typeSnippets))

\* C9: on a well-formed dictionary the loop is left after at most one pass
\* more than there are Structured records, and then every record of a
\* recognised kind that is not excluded has its entry in the registry.
C9_TerminatesComplete ==
    WellFormed =>
        /\ (pc = "while" /\ passNo >= NumStructured + 1) => finished
        /\ LoopLeft =>
               \A r \in 1..Len(typeSnippets) :
                   (Recognised(r) /\ ~Excluded(typeSnippets[r].Name))
                       => Inserted(types, r)

\* ----------------------------------------------------------- the document

\* s_1 sep s_2 sep ... s_n
RECURSIVE Interleave(_, _, _)
Interleave(seq, sep, i) ==
    IF i > Len(seq) THEN <<>>
    ELSE (IF i = 1 THEN <<>> ELSE <<sep>>) \o <<seq[i]>> \o Interleave(seq, sep, i + 1)

EnumValues(rec) == SelectSeq(rec.children, LAMBDA c : c.tag = "EnumeratedValue")

\* The case labels of a record: one for each EnumeratedValue, in its order.
CaseLabels(rec) ==
    [k \in 1..Len(EnumValues(rec)) |->
        protected_identifier(rec.Name \o "_" \o EnumValues(rec)[k].Name)]

\* C6: the declaration of an enumeration is "enum Name { l1, ..., ln };"
\* with one label for each of the n EnumeratedValue children of its record,
\* in their order.
C6_EnumDeclaration ==
    \A i \in ResolvedEntries :
        (pc = "done" /\ types[i][2].cls = "EnumerationType") =>
            Tokens(typedef_idl(types[i][2])) =
                <<"enum", types[i][2].name, "{">>
                    \o Interleave(CaseLabels(SourceOf(i)), ",", 1)
                    \o <<"}", ";">>

\* The lines of a declaration that lie between its first line and the
\* closing "};", as tokens.
BodyLines(decl) ==
    LET lines == SplitLines(decl)
    IN  [k \in 1..(Len(lines) - 2) |-> Tokens(lines[k + 1])]

\* The fields a struct declaration of a record is to hold: the member type,
\* behind ListOf for an array, and the member name, both sanitized.
ExpectedFields(rec) ==
    [k \in 1..Len(MemberFields(rec)) |->
        LET f == MemberFields(rec)[k]
            T == protected_identifier(stripTypename(f.TypeName))
        IN  << (IF f.LengthField # "" THEN "ListOf" \o T ELSE T),
               protected_identifier(f.Name), ";" >>]

\* C5: every identifier written for a resolved type is the sanitized form of
\* its name: the declared name, the name in "ListOf<name>" and in
\* "sequence<name>" of the wrapper, the case labels of an enumeration, the
\* member types and member names of a struct.
C5_UniformSanitization ==
    \A i \in (IF pc = "done" THEN ResolvedEntries ELSE {}) :
        LET t    == types[i][2]
            rec  == SourceOf(i)
            want == protected_identifier(rec.Name)
            decl == typedef_idl(t)
            wrap == Tokens(ListOfWrapper(types[i][1]))
        IN  /\ DeclaredIn(SplitLines(decl)) = {want}
            /\ wrap[2] = "ListOf" \o want
            /\ wrap[13] = want
            /\ t.cls = "StructType" => BodyLines(decl) = ExpectedFields(rec)
            /\ t.cls = "EnumerationType" =>
                   \A k \in 1..Len(BodyLines(decl)) :
                       \E l \in 1..Len(CaseLabels(rec)) :
                           BodyLines(decl)[k][1] = CaseLabels(rec)[l]

\* C8: the registry holds no StructType without members, and the document no
\* struct declaration without fields.
C8_NoEmptyStruct ==
    /\ \A i \in StructEntries : Len(types[i][2].members) > 0
    /\ pc = "done" =>
           \A k \in 1..(Len(Generated) - 1) :
               (/\ Len(Tokens(Generated[k])) = 3
                /\ Tokens(Generated[k])[1] = "struct"
                /\ Tokens(Generated[k])[3] = "{")
                   => Tokens(Generated[k + 1]) # <<"}", ";">>

\* C10: the type identifier of every field of an emitted struct declaration
\* is declared by the prelude or by a generated line before the field.
C10_FieldTypesDeclared ==
    pc = "done" =>
        \A k \in 1..Len(Generated) :
            LET t == Tokens(Generated[k])
            IN  (Len(t) = 3 /\ t[3] = ";" /\ t[1] # "}") =>
                    t[1] \in PreludeDeclared \cup DeclaredIn(SubSeq(Generated, 1, k - 1))

====
